---- MODULE Spec2Model ----
(***************************************************************************)
(* Model of the HeatsinkDesigner estimation engine and of the search that  *)
(* the task panels run on top of it (gui_dim_mode.py, gui_face_mode.py,    *)
(* geometry_builder.py, thermal_model.py, heatsink_types.py,               *)
(* cnc_defaults.py).                                                       *)
(*                                                                         *)
(* Number representation.  The program computes in IEEE doubles; the model *)
(* computes in fixed point on integers:                                    *)
(*   lateral lengths (length, width, thickness, gap, size, pitch)  mm      *)
(*   heights and base thickness           HU = 2^-20 mm (the resolution    *)
(*                                        20 halvings of a 1 mm bracket    *)
(*                                        reach, so every height the       *)
(*                                        search produces is exact)        *)
(*   areas                                mm^2                             *)
(*   convection coefficient               mW/(m^2 K)                       *)
(*   thermal resistance                   uK/W                             *)
(*   power                                uW                               *)
(*   conductivity                         W/(m K)                          *)
(* Every fixed-point step is a floor of a monotone real function, so the   *)
(* model's Q_max(height) is monotone exactly where the real one is.        *)
(***************************************************************************)
EXTENDS Integers, Sequences, FiniteSets, TLC

(***************************************************************************)
(* Fixed-point helpers                                                     *)
(***************************************************************************)
HU == 2^20

Max(a, b) == IF a >= b THEN a ELSE b

Min(a, b) == IF a <= b THEN a ELSE b

MaxInt == (2^30 - 1) + 2^30

\* <<q, r>> with a*b = q*d + r and 0 <= r < d, never forming a product above
\* MaxInt (0 <= a, 0 <= b < d, 3*d <= MaxInt)
RECURSIVE MulDivQR(_, _, _)
MulDivQR(a, b, d) ==
  IF b = 0 \/ a <= MaxInt \div b THEN <<(a * b) \div d, (a * b) % d>>
  ELSE LET half == MulDivQR(a \div 2, b, d)
           r2   == 2 * half[2] + (a % 2) * b
       IN  <<2 * half[1] + (r2 \div d), r2 % d>>

\* floor(a*b/d) for a, b >= 0 and d > 0
MulDiv(a, b, d) ==
  (a \div d) * b + (a % d) * (b \div d) + MulDivQR(a % d, b % d, d)[1]

\* largest s in lo..hi with s*s <= n (lo*lo <= n)
RECURSIVE ISqrtIn(_, _, _)
ISqrtIn(n, lo, hi) ==
  IF lo >= hi THEN lo
  ELSE LET mid == (lo + hi + 1) \div 2
       IN  IF mid * mid <= n THEN ISqrtIn(n, mid, hi) ELSE ISqrtIn(n, lo, mid - 1)

\* floor(sqrt(n)), n >= 0
ISqrt(n) == ISqrtIn(n, 0, 46340)

(***************************************************************************)
(* Values that may be absent (Python None)                                 *)
(***************************************************************************)
None == <<>>

Some(v) == <<v>>

IsNone(o) == Len(o) = 0

Val(o) == o[1]

(***************************************************************************)
(* Static catalogs                                                         *)
(***************************************************************************)
\* SUPPORTED_TYPES, in the insertion order of the dict
TypeKeys == <<"solid_plate", "straight_fins", "crosscut", "pin_fin">>

SUPPORTED_TYPES ==
  [ solid_plate   |-> <<"base_thickness_mm">>,
    straight_fins |-> <<"fin_thickness_mm", "fin_gap_mm", "fin_height_mm", "base_thickness_mm">>,
    crosscut      |-> <<"groove_width_mm", "pin_size_mm", "pin_height_mm", "base_thickness_mm">>,
    pin_fin       |-> <<"pin_size_mm", "pitch_mm", "pin_height_mm", "base_thickness_mm">> ]

\* heights and base thickness are carried in HU, the other lengths in mm
DEFAULT_CNC_PARAMS ==
  [ straight_fins |-> [ fin_thickness_mm  |-> 2,
                        fin_gap_mm        |-> 3,
                        base_thickness_mm |-> 5 * HU,
                        fin_height_mm     |-> 20 * HU ],
    crosscut      |-> [ groove_width_mm   |-> 3,
                        pin_size_mm       |-> 3,
                        pin_height_mm     |-> 15 * HU,
                        base_thickness_mm |-> 5 * HU ],
    pin_fin       |-> [ pin_size_mm       |-> 5,
                        pitch_mm          |-> 8,
                        pin_height_mm     |-> 20 * HU,
                        base_thickness_mm |-> 5 * HU ],
    solid_plate   |-> [ base_thickness_mm |-> 10 * HU ] ]

HEIGHT_PARAM_MAP ==
  [ solid_plate   |-> "base_thickness_mm",
    straight_fins |-> "fin_height_mm",
    crosscut      |-> "pin_height_mm",
    pin_fin       |-> "pin_height_mm" ]

\* thermal conductivity of the catalog materials, W/(m K)
MATERIALS ==
  [ al_6061 |-> 167, al_1050 |-> 222, al_3003 |-> 160,
    cu_ofhc |-> 390, brass   |-> 110, ss_304  |-> 16 ]

DEFAULT_MATERIAL_KEY == "al_6061"

\* dict(d) updated with p: {**d, **p}
Merge(d, p) ==
  [k \in (DOMAIN d) \cup (DOMAIN p) |-> IF k \in DOMAIN p THEN p[k] ELSE d[k]]

(***************************************************************************)
(* thermal_model.py                                                        *)
(***************************************************************************)
\* np.tanh sampled every 1/8 up to 6 (times 10^6); linear in between, 1 above
TanhTable ==
  << 0, 124353, 244919, 358357, 462117, 554600, 635149, 703906, 761594,
     809301, 848284, 879827, 905148, 925346, 941376, 954045, 964028,
     971873, 978026, 982845, 986614, 989560, 991860, 993655, 995055,
     996147, 996998, 997661, 998178, 998581, 998894, 999139, 999329,
     999478, 999593, 999683, 999753, 999808, 999850, 999883, 999909,
     999929, 999945, 999957, 999967, 999974, 999980, 999984, 999988 >>

TanhStep == 10^6 \div 8

\* tanh(x) * 10^6 for x = x_e6 / 10^6 >= 0
TanhE6(x_e6) ==
  LET i == x_e6 \div TanhStep
  IN  IF i + 1 >= Len(TanhTable) THEN 10^6
      ELSE TanhTable[i + 1]
           + MulDiv(TanhTable[i + 2] - TanhTable[i + 1], x_e6 - i * TanhStep, TanhStep)

\* m = (2 h / (k t))^0.5 with h = 8 W/(m^2 K), per mm of height, times 10^6
FinParameterM(fin_thickness_mm, material_conductivity_w_mk) ==
  ISqrt(MulDiv(16000, 10^6, material_conductivity_w_mk * fin_thickness_mm))

\* m * height, times 10^6
FinMH(fin_thickness_mm, fin_height, material_conductivity_w_mk) ==
  MulDiv(FinParameterM(fin_thickness_mm, material_conductivity_w_mk), fin_height, HU)

\* eta = clip(tanh(mH) / (mH), 0, 1), times 10^6
estimate_fin_efficiency(fin_thickness_mm, fin_height, material_conductivity_w_mk) ==
  IF fin_thickness_mm <= 0 \/ fin_height <= 0 THEN 0
  ELSE LET x == FinMH(fin_thickness_mm, fin_height, material_conductivity_w_mk)
       IN  IF x = 0 THEN 10^6 ELSE Min(Max(MulDiv(TanhE6(x), 10^6, x), 0), 10^6)

\* fin_efficiency * fin_area for fin_area = wetted_mm * height, in mm^2.
\* eta * (wetted * H) = wetted * tanh(mH) / m: the height cancels, and the
\* cancelled form is what is floored, so the result never decreases in H.
FinEffectiveArea(wetted_mm, fin_thickness_mm, fin_height, material_conductivity_w_mk) ==
  IF fin_thickness_mm <= 0 \/ fin_height <= 0 THEN 0
  ELSE MulDiv(wetted_mm,
              TanhE6(FinMH(fin_thickness_mm, fin_height, material_conductivity_w_mk)),
              FinParameterM(fin_thickness_mm, material_conductivity_w_mk))

\* the fins' area taken off the base instead of added to it
effective_area_less_fins(base_area, fin_eff_area) == base_area - fin_eff_area

\* base_area + fin_efficiency * fin_area
effective_area_with_fins(base_area, fin_eff_area) == base_area + fin_eff_area

GeometrySummary(base_area, effective_area, characteristic_length) ==
  [ base_area_m2            |-> base_area,
    effective_area_m2       |-> effective_area,
    characteristic_length_m |-> characteristic_length ]

\* g * beta * rho^2 / mu^2 * Pr for lengths in mm, times 10^7; the density is
\* AIR_DENSITY without the fluids package and the humid-air value at
\* (25 C, 50 %) with it
compute_air_properties(fluids_available) ==
  IF fluids_available THEN 927075 ELSE 956869

\* (1 + (0.492 / Pr)^(9/16))^(4/9), times 10^4
ChurchillChuDen == 13029

\* a floor of 2.5 in place of 3.0
ConvectionFloorLower(h) == Max(h, 2500)

\* max(h, 3.0), in mW/(m^2 K)
ConvectionFloor(h) == Max(h, 3000)

\* h in mW/(m^2 K); characteristic length > 0, delta_t >= 0 (in K)
convection_coefficient_natural(geometry, delta_t, fluids_available) ==
  LET lc       == geometry.characteristic_length_m
      rayleigh == MulDiv(delta_t * lc * lc * lc,
                         compute_air_properties(fluids_available), 10^7)
      root4    == ISqrt(ISqrt(rayleigh) * 10000)        \* rayleigh^0.25 * 100
      nu       == 680 + MulDiv(670 * root4, 100, ChurchillChuDen)
      h        == (nu * 26) \div lc
  IN  ConvectionFloor(h)

ThermalResult(h, heat, surface) ==
  [ convection_coefficient |-> h,
    heat_dissipation_w     |-> heat,
    surface_temperature_c  |-> surface ]

\* smallest area the resistances are computed for (the code floors areas at
\* 1e-12 m^2; the model's areas are whole mm^2)
AreaFloor == 1

\* 1 / (h * a_eff) in uK/W
ConvectionResistance(h, a_eff) == MulDiv(MulDiv(10^9, 1000, h), 1000, a_eff)

\* the resistance of a base 1 mm thick, whatever the thickness
ConductionResistanceOfUnit(base_thickness, k, a_base) ==
  MulDiv(HU \div 512, 1953125, 4 * k * a_base)

\* base_thickness / (k * a_base) in uK/W; the thickness is taken to 1/2048 mm
ConductionResistance(base_thickness, k, a_base) ==
  MulDiv(base_thickness \div 512, 1953125, 4 * k * a_base)

\* delta_t_surface = q * r_conv in mK, for q in uW and r_conv in uK/W
SurfaceRise(q, r_conv) == MulDiv(q, r_conv, 10^6) \div 1000

\* Q_max = dT / R_tot and the surface temperature it gives
DesignPoint(environment, h, r_conv, heat_w) ==
  ThermalResult(h, heat_w, environment.temperature_c + SurfaceRise(heat_w, r_conv))

\* Q_max taken over the convection resistance alone
DesignModeConvectionOnly(environment, target_overtemp_c, h, r_conv, r_cond) ==
  IF r_conv + r_cond <= 0
  THEN ThermalResult(h, 0, environment.temperature_c)
  ELSE DesignPoint(environment, h, r_conv,
                   MulDiv(10^9, target_overtemp_c * 1000, r_conv))

\* target_overtemp_c read as the surface temperature allowed, not as the
\* rise above ambient
DesignModeSurfaceLimit(environment, target_overtemp_c, h, r_conv, r_cond) ==
  IF r_conv + r_cond <= 0
  THEN ThermalResult(h, 0, environment.temperature_c)
  ELSE DesignPoint(environment, h, r_conv,
                   MulDiv(10^9, Max(target_overtemp_c * 1000 - environment.temperature_c, 0),
                          r_conv + r_cond))

\* power_input_w is None: design mode
DesignMode(environment, target_overtemp_c, h, r_conv, r_cond) ==
  IF r_conv + r_cond <= 0
  THEN ThermalResult(h, 0, environment.temperature_c)
  ELSE DesignPoint(environment, h, r_conv,
                   MulDiv(10^9, target_overtemp_c * 1000, r_conv + r_cond))

\* the surface rise of the given power taken over R_conv + R_cond
HeatBalanceThroughBase(environment, power_input_w, target_overtemp_c, h, a_eff, r_cond) ==
  IF IsNone(power_input_w)
  THEN DesignMode(environment, target_overtemp_c, h, ConvectionResistance(h, a_eff), r_cond)
  ELSE ThermalResult(h, Max(Val(power_input_w), 0),
                     environment.temperature_c
                       + SurfaceRise(Max(Val(power_input_w), 0),
                                     ConvectionResistance(h, a_eff) + r_cond))

\* the given power reported as it came, a negative one included
HeatBalanceUnclamped(environment, power_input_w, target_overtemp_c, h, a_eff, r_cond) ==
  IF IsNone(power_input_w)
  THEN DesignMode(environment, target_overtemp_c, h, ConvectionResistance(h, a_eff), r_cond)
  ELSE ThermalResult(h, Val(power_input_w),
                     environment.temperature_c
                       + SurfaceRise(Max(Val(power_input_w), 0),
                                     ConvectionResistance(h, a_eff)))

\* the two modes of estimate_heat_dissipation once h and the conduction
\* resistance are known
HeatBalance(environment, power_input_w, target_overtemp_c, h, a_eff, r_cond) ==
  IF IsNone(power_input_w)
  THEN DesignMode(environment, target_overtemp_c, h, ConvectionResistance(h, a_eff), r_cond)
  ELSE ThermalResult(h, Max(Val(power_input_w), 0),
                     environment.temperature_c
                       + SurfaceRise(Max(Val(power_input_w), 0),
                                     ConvectionResistance(h, a_eff)))

\* environment: [temperature_c (in mC), relative_humidity]
\* power_input_w, base_thickness_m, base_contact_area_m2: None or Some(value)
estimate_heat_dissipation(geometry, environment, power_input_w, target_overtemp_c, base_thickness_m, material_conductivity_w_mk, base_contact_area_m2, fluids_available) ==
  LET a_eff  == Max(geometry.effective_area_m2, AreaFloor)
      a_base == Max(IF IsNone(base_contact_area_m2) THEN geometry.base_area_m2
                    ELSE Val(base_contact_area_m2), AreaFloor)
      r_cond == IF ~IsNone(base_thickness_m) /\ Val(base_thickness_m) > 0
                   /\ material_conductivity_w_mk > 0
                THEN ConductionResistance(Val(base_thickness_m),
                                          material_conductivity_w_mk, a_base)
                ELSE 0
  IN  HeatBalance(environment, power_input_w, target_overtemp_c,
                  convection_coefficient_natural(geometry, target_overtemp_c,
                                                 fluids_available),
                  a_eff, r_cond)

\* Environment(): 25 C, 50 % relative humidity
DefaultEnvironment == [ temperature_c |-> 25000, relative_humidity |-> 50 ]

\* the range with its stop value included
arange_through_stop(start, stop, step) ==
  [i \in 1 .. Max(0, (stop - start) \div step + 1) |-> start + (i - 1) * step]

\* np.arange(start, stop, step) for whole numbers and step > 0:
\* ceil((stop - start) / step) values from start on
arange(start, stop, step) ==
  [i \in 1 .. Max(0, (stop - start + step - 1) \div step) |-> start + (i - 1) * step]

\* f"{rh:.0f}" for rh in tenths: the nearest whole number, a tie going to
\* the even one
format_0f(rh) ==
  LET f == rh \div 10
      r == rh % 10
  IN  IF r < 5 THEN f
      ELSE IF r > 5 THEN f + 1
      ELSE IF f % 2 = 0 THEN f ELSE f + 1

\* f"RH {rh:.0f}%"
CurveKey(rh) == "RH " \o ToString(format_0f(rh)) \o "%"

\* the list `data` of one humidity: (temp, Q_max) for every temp, in order;
\* temps in C, the humidity as the caller gave it
CurveData(geometry, rh, temps, delta_t_c, base_thickness_m, material_conductivity_w_mk) ==
  [i \in 1 .. Len(temps) |->
     << temps[i],
        estimate_heat_dissipation(
          geometry, [temperature_c |-> temps[i] * 1000, relative_humidity |-> rh],
          None, delta_t_c, base_thickness_m, material_conductivity_w_mk,
          None, FALSE).heat_dissipation_w >>]

\* the loop over humidity_points from the i-th on: curves[key] = data
RECURSIVE CurvesFrom(_, _, _, _, _, _, _, _)
CurvesFrom(curves, humidity_points, i, geometry, temps, delta_t_c, base_thickness_m, material_conductivity_w_mk) ==
  IF i > Len(humidity_points) THEN curves
  ELSE CurvesFrom(
         Merge(curves,
               CurveKey(humidity_points[i])
                 :> CurveData(geometry, humidity_points[i], temps, delta_t_c,
                              base_thickness_m, material_conductivity_w_mk)),
         humidity_points, i + 1, geometry, temps, delta_t_c, base_thickness_m,
         material_conductivity_w_mk)

\* humidity_points in tenths of a percent, temp_range_c = <<t_min, t_max, t_step>>
generate_performance_curve(geometry, humidity_points, temp_range_c, delta_t_c, base_thickness_m, material_conductivity_w_mk) ==
  CurvesFrom(<<>>, humidity_points, 1, geometry,
             arange(temp_range_c[1], temp_range_c[2], temp_range_c[3]),
             delta_t_c, base_thickness_m, material_conductivity_w_mk)

(***************************************************************************)
(* geometry_builder.py                                                     *)
(***************************************************************************)
\* raise ValueError(...): kind is the error kind of the message, name the
\* parameter the message names
Raise(kind, name) ==
  [ ok |-> FALSE, error |-> "ValueError", kind |-> kind, name |-> name ]

GeometryDetails(geometry, fin_count, fin_area) ==
  [ ok |-> TRUE, geometry |-> geometry, fin_count |-> fin_count, fin_area_m2 |-> fin_area ]

BaseDimensions(base_dimensions) ==
  [ length_mm         |-> base_dimensions[1],
    width_mm          |-> base_dimensions[2],
    base_thickness_mm |-> base_dimensions[3] ]

\* the first (value, name) pair that _validate_positive rejects, or None
RECURSIVE validate_positive(_)
validate_positive(pairs) ==
  IF pairs = <<>> THEN None
  ELSE IF pairs[1][1] <= 0 THEN Some(pairs[1][2])
  ELSE validate_positive(Tail(pairs))

base_area_of(base) == base.length_mm * base.width_mm

characteristic_length(base) == Max(base.length_mm, base.width_mm)

\* both faces of the plate counted as effective area
build_solid_plate_both_faces(base, material_conductivity_w_mk) ==
  LET bad == validate_positive(<< <<base.base_thickness_mm, "base_thickness_mm">> >>)
  IN  IF ~IsNone(bad) THEN Raise("InvalidParameter", Val(bad))
      ELSE GeometryDetails(GeometrySummary(base_area_of(base), 2 * base_area_of(base),
                                           characteristic_length(base)),
                           None, None)

build_solid_plate(base, material_conductivity_w_mk) ==
  LET bad == validate_positive(<< <<base.base_thickness_mm, "base_thickness_mm">> >>)
  IN  IF ~IsNone(bad) THEN Raise("InvalidParameter", Val(bad))
      ELSE GeometryDetails(GeometrySummary(base_area_of(base), base_area_of(base),
                                           characteristic_length(base)),
                           None, None)

\* fins counted without the one at the edge
StraightFinCountNoEdge(usable_width_mm, pitch_mm) == usable_width_mm \div pitch_mm

\* int(usable_width_mm // pitch_mm) + 1
StraightFinCount(usable_width_mm, pitch_mm) == (usable_width_mm \div pitch_mm) + 1

\* a usable width of exactly zero let through
StraightFinsInfeasibleBelowZero(pitch_mm, usable_width_mm) ==
  pitch_mm <= 0 \/ usable_width_mm < 0

\* pitch_mm <= 0 or usable_width_mm <= 0
StraightFinsInfeasible(pitch_mm, usable_width_mm) ==
  pitch_mm <= 0 \/ usable_width_mm <= 0

build_straight_fins(base, fin_height_mm, fin_thickness_mm, fin_gap_mm, material_conductivity_w_mk) ==
  LET bad == validate_positive(<< <<fin_height_mm, "fin_height_mm">>,
                                  <<fin_thickness_mm, "fin_thickness_mm">>,
                                  <<fin_gap_mm, "fin_gap_mm">> >>)
      pitch_mm        == fin_thickness_mm + fin_gap_mm
      usable_width_mm == base.width_mm - fin_gap_mm
      fin_count       == StraightFinCount(usable_width_mm, pitch_mm)
      wetted          == fin_count * 2 * base.length_mm
      fin_area        == MulDiv(wetted, fin_height_mm, HU)
      effective_area  ==
        effective_area_with_fins(base_area_of(base),
          FinEffectiveArea(wetted, fin_thickness_mm, fin_height_mm,
                           material_conductivity_w_mk))
  IN  IF ~IsNone(bad) THEN Raise("InvalidParameter", Val(bad))
      ELSE IF StraightFinsInfeasible(pitch_mm, usable_width_mm)
      THEN Raise("InvalidGeometry", "width")
      ELSE GeometryDetails(GeometrySummary(base_area_of(base), effective_area,
                                           characteristic_length(base)),
                           Some(fin_count), Some(fin_area))

\* the counts multiplied without the floor of one pin per direction
PinCountUnfloored(count_x, count_y) == count_x * count_y

\* max(count_x, 1) * max(count_y, 1)
PinCount(count_x, count_y) == Max(count_x, 1) * Max(count_y, 1)

build_crosscut(base, pin_height_mm, pin_size_mm, groove_width_mm, material_conductivity_w_mk) ==
  LET bad == validate_positive(<< <<pin_height_mm, "pin_height_mm">>,
                                  <<pin_size_mm, "pin_size_mm">>,
                                  <<groove_width_mm, "groove_width_mm">> >>)
      pitch_mm  == pin_size_mm + groove_width_mm
      count_x   == (base.length_mm + groove_width_mm) \div pitch_mm
      count_y   == (base.width_mm + groove_width_mm) \div pitch_mm
      pin_count == PinCount(count_x, count_y)
      wetted    == pin_count * 4 * pin_size_mm
      pin_area  == MulDiv(wetted, pin_height_mm, HU)
      effective_area ==
        effective_area_with_fins(base_area_of(base),
          FinEffectiveArea(wetted, pin_size_mm, pin_height_mm,
                           material_conductivity_w_mk))
  IN  IF ~IsNone(bad) THEN Raise("InvalidParameter", Val(bad))
      ELSE IF pitch_mm <= 0 THEN Raise("InvalidGeometry", "pitch")
      ELSE GeometryDetails(GeometrySummary(base_area_of(base), effective_area,
                                           characteristic_length(base)),
                           Some(pin_count), Some(pin_area))

\* the pitch left out of the numerator
PinFinCountNoEdge(extent_mm, pitch_mm, pin_size_mm) ==
  (extent_mm - pin_size_mm) \div pitch_mm

\* int((extent + pitch_mm - pin_size_mm) // pitch_mm)
PinFinCountAlong(extent_mm, pitch_mm, pin_size_mm) ==
  (extent_mm + pitch_mm - pin_size_mm) \div pitch_mm

build_pin_fin(base, pin_height_mm, pin_size_mm, pitch_mm, material_conductivity_w_mk) ==
  LET bad == validate_positive(<< <<pin_height_mm, "pin_height_mm">>,
                                  <<pin_size_mm, "pin_size_mm">>,
                                  <<pitch_mm, "pitch_mm">> >>)
      count_x   == PinFinCountAlong(base.length_mm, pitch_mm, pin_size_mm)
      count_y   == PinFinCountAlong(base.width_mm, pitch_mm, pin_size_mm)
      pin_count == PinCount(count_x, count_y)
      wetted    == pin_count * 4 * pin_size_mm
      pin_area  == MulDiv(wetted, pin_height_mm, HU)
      effective_area ==
        effective_area_with_fins(base_area_of(base),
          FinEffectiveArea(wetted, pin_size_mm, pin_height_mm,
                           material_conductivity_w_mk))
  IN  IF ~IsNone(bad) THEN Raise("InvalidParameter", Val(bad))
      ELSE GeometryDetails(GeometrySummary(base_area_of(base), effective_area,
                                           characteristic_length(base)),
                           Some(pin_count), Some(pin_area))

\* an unknown key quietly built as a bare plate of no area
UnknownTypeAsEmpty(heatsink_type) ==
  GeometryDetails(GeometrySummary(0, 0, 0), None, None)

\* raise ValueError(f"Unknown heatsink type: {heatsink_type}")
UnknownType(heatsink_type) == Raise("UnknownType", heatsink_type)

\* conductivity assumed when params carries none
DefaultConductivity == 205

\* params: a mapping from parameter names to values (the caller's dict)
build_geometry(heatsink_type, base_dimensions, params) ==
  LET base     == BaseDimensions(base_dimensions)
      defaults == IF heatsink_type \in DOMAIN DEFAULT_CNC_PARAMS
                  THEN DEFAULT_CNC_PARAMS[heatsink_type] ELSE <<>>
      merged   == Merge(defaults, params)
      material_k == IF "material_conductivity_w_mk" \in DOMAIN merged
                    THEN merged["material_conductivity_w_mk"] ELSE DefaultConductivity
  IN  CASE heatsink_type = "solid_plate" ->
             build_solid_plate(base, material_k)
        [] heatsink_type = "straight_fins" ->
             build_straight_fins(base, merged["fin_height_mm"], merged["fin_thickness_mm"],
                                 merged["fin_gap_mm"], material_k)
        [] heatsink_type = "crosscut" ->
             build_crosscut(base, merged["pin_height_mm"], merged["pin_size_mm"],
                            merged["groove_width_mm"], material_k)
        [] heatsink_type = "pin_fin" ->
             build_pin_fin(base, merged["pin_height_mm"], merged["pin_size_mm"],
                           merged["pitch_mm"], material_k)
        [] OTHER -> UnknownType(heatsink_type)

(***************************************************************************)
(* Task panels: gui_dim_mode.py (DimensionModeTaskPanel) and               *)
(* gui_face_mode.py (FaceSketchController, FaceModeTaskPanel)              *)
(***************************************************************************)
H_CAP == 1000

BisectIterations == 20

\* h_min = 1.0
h_min == HU

\* q >= p_req
MeetsTarget(q, p) == q >= p

\* a quarter of the way instead of half
MidpointQuarter(lo, hi) == lo + (hi - lo) \div 4

\* 0.5 * (h_low + h_high)
Midpoint(lo, hi) == (lo + hi) \div 2

\* the two assignments of the loop body exchanged
BisectStepSwapped(lo, hi, meets) ==
  IF meets THEN <<Midpoint(lo, hi), hi>> ELSE <<lo, Midpoint(lo, hi)>>

\* one pass of the bisection loop body: the new <<h_low, h_high>>
BisectStep(lo, hi, meets) ==
  IF meets THEN <<lo, Midpoint(lo, hi)>> ELSE <<Midpoint(lo, hi), hi>>

\* the loop condition of the expansion
WithinCap(hi) == hi <= H_CAP * HU

\* the bracket widened by 1 mm at a time
NextHighByStep(hi) == hi + HU

\* h_high *= 2.0
NextHigh(hi) == 2 * hi

\* the last height probed handed back in place of None
NotFoundReturnsLow(lo, hi) == Some(lo)

\* what the search returns when the expansion loop ends without a bracket
NotFound(lo, hi) == None

\* what the search returns after the last bisection pass
BisectResult(lo, hi) == Some(hi)

\* int(h) in place of round(h)
py_round_truncating(h) == (h \div HU) * HU

\* round(h): nearest whole mm, a tie goes to the even one
py_round(h) ==
  LET f == h \div HU
      r == h % HU
  IN  IF 2 * r < HU THEN f * HU
      ELSE IF 2 * r > HU THEN (f + 1) * HU
      ELSE IF f % 2 = 0 THEN f * HU ELSE (f + 1) * HU

\* h_round = max(1.0, round(best_h))
RoundHeight(best) == Max(HU, py_round(best))

\* <= in place of <
BetterHeightOrEqual(h_loc, best) == IsNone(best) \/ h_loc <= Val(best)

\* best_h is None or h_local < best_h
BetterHeight(h_loc, best) == IsNone(best) \/ h_loc < Val(best)

\* < in place of >
BetterPowerReversed(q, best) == IsNone(best) \/ q < Val(best)

\* best_q is None or res.heat_dissipation_w > best_q
BetterPower(q, best) == IsNone(best) \/ q > Val(best)

\* DimensionModeTaskPanel._default_params_for_type
default_params_for_type(type_key, use_height_spin, height_spin_value) ==
  LET params == IF type_key \in DOMAIN DEFAULT_CNC_PARAMS
                THEN DEFAULT_CNC_PARAMS[type_key] ELSE <<>>
  IN  IF use_height_spin /\ type_key \in DOMAIN HEIGHT_PARAM_MAP
      THEN Merge(params, HEIGHT_PARAM_MAP[type_key] :> height_spin_value)
      ELSE params

\* the tail of prepare_geometry: base and effective area scaled by the ratio
\* of the selection's area to its bounding box
ScaleToSelection(details, area_mm2, bbox) ==
  IF ~details.ok THEN details
  ELSE IF area_mm2 > 0 /\ bbox > 0
  THEN [details EXCEPT
          !.geometry.base_area_m2      = MulDiv(@, area_mm2, bbox),
          !.geometry.effective_area_m2 = MulDiv(@, area_mm2, bbox)]
  ELSE details

\* FaceSketchController.validate_selection + prepare_geometry;
\* sel: None or Some([length_mm, width_mm, area_mm2])
prepare_geometry(sel, heatsink_type, params, base_thickness_mm, material_k) ==
  IF IsNone(sel) THEN Raise("NoSelection", "selection")
  ELSE IF Val(sel).length_mm <= 0 \/ Val(sel).width_mm <= 0
  THEN Raise("InvalidSelection", "selection")
  ELSE IF heatsink_type \notin DOMAIN SUPPORTED_TYPES
  THEN Raise("UnknownType", heatsink_type)
  ELSE LET s      == Val(sel)
           merged == Merge(params, "material_conductivity_w_mk" :> material_k)
       IN  ScaleToSelection(
             build_geometry(heatsink_type,
                            <<s.length_mm, s.width_mm, base_thickness_mm>>, merged),
             s.area_mm2, s.length_mm * s.width_mm)

\* the design-mode call both panels make on a built geometry
DesignResult(details, delta, base_t, k, fl) ==
  estimate_heat_dissipation(details.geometry, DefaultEnvironment, None, delta,
                            Some(base_t), k, Some(details.geometry.base_area_m2), fl)

\* res.heat_dissipation_w of the design-mode call, or the error the geometry
\* build raised
DesignPower(details, in, base_t) ==
  IF ~details.ok THEN details
  ELSE [ ok |-> TRUE,
         q  |-> DesignResult(details, in.delta_t, base_t, in.mat_k,
                             in.fluids).heat_dissipation_w ]

\* the inputs a handler reads from the widgets and the selection:
\*   in.panel "dim" | "face", in.dim <<length, width, base_thickness>>,
\*   in.sel_area, in.params_common, in.delta_t, in.p_req, in.mat_k,
\*   in.height_spin, in.fluids
\* q_for_height(h_mm) of either panel: [ok |-> TRUE, q |-> Q_max] or the error
q_for_height(in, type_key, h) ==
  LET hp           == HEIGHT_PARAM_MAP[type_key]
      base_t_local == IF type_key = "solid_plate" THEN h ELSE in.dim[3]
      details ==
        IF in.panel = "dim"
        THEN LET params_base ==
                   Merge(default_params_for_type(type_key, FALSE, in.height_spin),
                         "material_conductivity_w_mk" :> in.mat_k)
             IN  build_geometry(type_key, in.dim, Merge(params_base, hp :> h))
        ELSE prepare_geometry(
               Some([length_mm |-> in.dim[1], width_mm |-> in.dim[2],
                     area_mm2 |-> in.sel_area]),
               type_key, Merge(in.params_common, hp :> h), base_t_local, in.mat_k)
  IN  DesignPower(details, in, base_t_local)

\* what a handler hands back: the chosen type, its parameters and geometry
\* (None when there is none), the kind of text shown, and the numbers in it
Outcome(type_key, params, details, text, q, h_round) ==
  [ type_key |-> type_key, params |-> params, details |-> details,
    text |-> text, q |-> q, h_round |-> h_round ]

NoOutcome(text) == Outcome(None, None, None, text, None, None)

\* _dimension_input: the three dimensions must be positive
dimension_input_ok(d) == ~(d[1] <= 0 \/ d[2] <= 0 \/ d[3] <= 0)

\* what the loop body holds for one archetype once its geometry is built
CandidateOf(in, type_key, params, base_t, details) ==
  IF ~details.ok THEN details
  ELSE [ ok |-> TRUE, type_key |-> type_key, params |-> params, details |-> details,
         q |-> DesignResult(details, in.delta_t, base_t, in.mat_k,
                            in.fluids).heat_dissipation_w ]

\* one archetype of the "P_load from height" loop of _compute_best_config
HToQCandidate(in, type_key) ==
  LET params  == Merge(default_params_for_type(type_key, TRUE, in.height_spin),
                       "material_conductivity_w_mk" :> in.mat_k)
      base_t  == IF type_key = "solid_plate" THEN in.height_spin ELSE in.dim[3]
  IN  CandidateOf(in, type_key, params, base_t, build_geometry(type_key, in.dim, params))

\* the best so far after candidate c: kept when c raised or is not better
KeepBest(c, best) ==
  IF ~c.ok THEN best
  ELSE IF BetterPower(c.q, IF IsNone(best) THEN None ELSE Some(Val(best).q))
  THEN Some(c)
  ELSE best

\* the loop over type_list: an archetype that raises is skipped (except
\* Exception: continue), a strictly greater Q_max replaces the best so far
RECURSIVE HToQSweep(_, _, _, _)
HToQSweep(in, type_list, i, best) ==
  IF i > Len(type_list) THEN best
  ELSE HToQSweep(in, type_list, i + 1, KeepBest(HToQCandidate(in, type_list[i]), best))

\* type_list = self._type_keys if auto_mode else [str(current_data)]
TypeList(type_sel) == IF type_sel = "__auto__" THEN TypeKeys ELSE <<type_sel>>

\* the return of the "h_to_q" branch: nothing when no archetype evaluated
BestOutcome(best) ==
  IF IsNone(best) THEN NoOutcome("failed")
  ELSE Outcome(Some(Val(best).type_key), Some(Val(best).params),
               Some(Val(best).details), "h_to_q", Some(Val(best).q), None)

\* _compute_best_config in mode "h_to_q"
DimHToQOutcome(in, type_sel) ==
  IF ~dimension_input_ok(in.dim) THEN NoOutcome("invalid_dimensions")
  ELSE BestOutcome(HToQSweep(in, TypeList(type_sel), 1, None))

\* the label of the face panel once prepare_geometry returned or raised
FaceOutcomeOf(in, type_key, params, base_t, details) ==
  IF ~details.ok THEN NoOutcome("error")
  ELSE Outcome(Some(type_key), Some(params), Some(details), "h_to_q",
               Some(DesignResult(details, in.delta_t, base_t, in.mat_k,
                                 in.fluids).heat_dissipation_w), None)

\* FaceModeTaskPanel._update_result_label in mode "h_to_q"
FaceHToQOutcome(in, type_key) ==
  LET hp      == HEIGHT_PARAM_MAP[type_key]
      base_t  == IF type_key = "solid_plate" THEN in.height_spin ELSE in.dim[3]
      params  == Merge(in.params_common, hp :> in.height_spin)
  IN  FaceOutcomeOf(in, type_key, params, base_t,
        prepare_geometry(
          Some([length_mm |-> in.dim[1], width_mm |-> in.dim[2],
                area_mm2 |-> in.sel_area]),
          type_key, params, base_t, in.mat_k))

\* params.get(name, default)
ParamGet(params, name, default) ==
  IF name \in DOMAIN params THEN params[name] ELSE default

\* the boxes one placement loop of heatsink_feature makes: positions pos,
\* pos + pitch, ... while pos + size <= limit (+ 1e-6, nothing for whole
\* mm), for pitch > 0: one box per round i of the loop that passes its test
PlacedFrom(pos, size, pitch, limit) ==
  Cardinality({ i \in 0 .. Max(limit, 0) : pos + i * pitch + size <= limit })

\* len(fins) of _create_straight_fins on a face length x width
create_straight_fins(length, width, params) ==
  LET fin_t == ParamGet(params, "fin_thickness_mm", 2)
      gap   == ParamGet(params, "fin_gap_mm", 3)
  IN  PlacedFrom(gap, fin_t, fin_t + gap, width - gap)

\* len(fins) of _create_crosscut_pins: len(xs) * len(ys)
create_crosscut_pins(length, width, params) ==
  LET groove   == ParamGet(params, "groove_width_mm", 3)
      pin_size == ParamGet(params, "pin_size_mm", 3)
  IN  PlacedFrom(groove, pin_size, groove + pin_size, length - groove)
        * PlacedFrom(groove, pin_size, groove + pin_size, width - groove)

\* len(fins) of _create_pin_fin: len(xs) * len(ys)
create_pin_fin(length, width, params) ==
  LET pin_size == ParamGet(params, "pin_size_mm", 5)
      pitch    == ParamGet(params, "pitch_mm", 8)
  IN  PlacedFrom(0, pin_size, pitch, length) * PlacedFrom(0, pin_size, pitch, width)

\* heatsink_feature._create_fins_solid: the number of boxes by archetype
create_fins_solid(heatsink_type, length, width, params) ==
  IF heatsink_type = "straight_fins" THEN create_straight_fins(length, width, params)
  ELSE IF heatsink_type = "crosscut" THEN create_crosscut_pins(length, width, params)
  ELSE IF heatsink_type = "pin_fin" THEN create_pin_fin(length, width, params)
  ELSE 0

\* the (name, package) pairs the loop of _import_taskpanel hands to
\* import_module, in order; import_module(modname) passes no package
ImportNames(module_name) ==
  << << "HeatsinkDesigner." \o module_name, None >>, << module_name, None >> >>

\* the loop from the i-th name on: the class of the first name that imports
\* and holds it, else None; calls are the import_module calls made
RECURSIVE ImportFrom(_, _, _, _, _)
ImportFrom(names, i, class_name, importable, calls) ==
  IF i > Len(names) THEN [ calls |-> calls, result |-> None ]
  ELSE IF names[i] \in importable
  THEN [ calls  |-> Append(calls, names[i]),
         result |-> Some([ class_name |-> class_name, found_as |-> names[i] ]) ]
  ELSE ImportFrom(names, i + 1, class_name, importable, Append(calls, names[i]))

\* _import_taskpanel(module_name, class_name); importable: the (name,
\* package) pairs for which import_module returns a module holding the class
import_taskpanel(module_name, class_name, importable) ==
  ImportFrom(ImportNames(module_name), 1, class_name, importable, <<>>)

\* the three catalogs as the modules define them at import
Catalogs ==
  [ DEFAULT_CNC_PARAMS |-> DEFAULT_CNC_PARAMS,
    MATERIALS          |-> MATERIALS,
    SUPPORTED_TYPES    |-> SUPPORTED_TYPES ]

\* the writes landing in the table's own entry
TableAfterWritesInPlace(table, type_key, writes) ==
  IF type_key \in DOMAIN table
  THEN [table EXCEPT ![type_key] = Merge(@, writes)]
  ELSE table

\* DEFAULT_CNC_PARAMS after a handler wrote `writes` into the mapping that
\* _default_params_for_type returned: that mapping is dict(...) of the
\* table's entry, a copy, so the entry keeps its values
TableAfterWrites(table, type_key, writes) == table

\* the writes of the "P_load from height" loop, one archetype after the other:
\* the height of the spin box and the conductivity
RECURSIVE SweepWrites(_, _, _, _)
SweepWrites(table, type_list, i, in) ==
  IF i > Len(type_list) THEN table
  ELSE SweepWrites(
         TableAfterWrites(table, type_list[i],
                          Merge(HEIGHT_PARAM_MAP[type_list[i]] :> in.height_spin,
                                "material_conductivity_w_mk" :> in.mat_k)),
         type_list, i + 1, in)

\* the write of _find_height_for_type into params_base (the face panel
\* takes its parameters from the widgets and reads no table)
SearchWrites(table, type_key, in) ==
  IF in.panel = "dim"
  THEN TableAfterWrites(table, type_key, "material_conductivity_w_mk" :> in.mat_k)
  ELSE table

\* the writes of the report at the rounded height
FinalWrites(table, type_key, h_round, in) ==
  IF in.panel = "dim"
  THEN TableAfterWrites(table, type_key,
                        Merge("material_conductivity_w_mk" :> in.mat_k,
                              HEIGHT_PARAM_MAP[type_key] :> h_round))
  ELSE table

\* the pop acting on the mapping the caller passed
CallerParamsPopped(params) ==
  [k \in (DOMAIN params) \ {"material_conductivity_w_mk"} |-> params[k]]

\* the caller's mapping after build_geometry: params = dict(params) and
\* merged = {**defaults, **params} are new mappings, and the conductivity is
\* popped from merged
CallerParamsAfter(params) == params

(***************************************************************************)
(* Inputs the model draws from                                             *)
(***************************************************************************)
\* <<length, width>> of the plate or of the selection's bounding box, mm
Footprints == { <<100, 50>>, <<100, 3>> }

BaseThicknesses == { 5 * HU }

MaterialKeys == { "al_6061", "cu_ofhc" }

DeltaTs == { 40 }

\* target powers, uW (the spin box has one decimal: multiples of 0.1 W)
PowerTargets == { 0, 1000000, 1600000, 10000000, 80000000, 500000000 }

HeightSpinValues == { 1 * HU, 20 * HU }

TypeSelections == { "__auto__", "solid_plate", "straight_fins", "crosscut", "pin_fin" }

\* part of the bounding box the selected face covers, in percent
FaceCoverages == { 50, 100 }

\* footprints (length, width in mm) of the direct build_geometry calls
BuildFootprints == { <<100, 50>>, <<120, 60>>, <<80, 80>>, <<120, 2>>, <<100, 49>> }

\* largest value tried for a parameter in a direct build_geometry call
MaxParamValue == 3

\* values tried for one parameter: negative, zero and small positive ones
ParamValues == -1 .. MaxParamValue

\* keys the registry does not hold
UnknownTypeKeys == { "spiky", "Solid_Plate", "" }

\* params mappings passed along with an unknown key
UnknownTypeParams ==
  << <<>>,
     DEFAULT_CNC_PARAMS["pin_fin"],
     "material_conductivity_w_mk" :> 390,
     "fin_height_mm" :> (0 - HU) >>

\* GeometrySummary values handed to estimate_heat_dissipation: areas in
\* mm^2, characteristic length in mm (the first is the one of the tests)
EstGeometries ==
  { GeometrySummary(40000, 80000, 100),
    GeometrySummary(10000, 10000, 100),
    GeometrySummary(7200, 61354, 120) }

\* ambient temperature in mC, relative humidity in %
EstEnvironments ==
  { DefaultEnvironment, [ temperature_c |-> 40000, relative_humidity |-> 30 ] }

\* power_input_w: None, or a power in uW (negative, zero, tiny, 5 W, 40 W)
EstPowers == { None, Some(0 - 5000000), Some(0), Some(1), Some(5000000), Some(40000000) }

\* target_overtemp_c in K
EstDeltaTs == { 0, 10, 40, 80 }

\* base_thickness_m: None or a thickness in HU
EstBaseThicknesses == { None, Some(0), Some(5 * HU) }

\* material_conductivity_w_mk: two catalog materials and no conductivity
EstConductivities == { MATERIALS["al_6061"], MATERIALS["cu_ofhc"], 0 }

\* humidity_points of the curve calls, in tenths of a percent: the default,
\* points that round to the same whole percent, a tie case, a single point
CurveHumidities ==
  { <<300, 600, 900>>, <<302, 304>>, <<296, 304, 900>>, <<305, 315>>, <<500>> }

\* temp_range_c of the curve calls: the default, a stop on the grid, a
\* coarser grid and an empty range
CurveTempRanges == { <<0, 81, 5>>, <<0, 80, 5>>, <<20, 41, 10>>, <<10, 10, 5>> }

\* the two task panels the commands load
TaskPanels ==
  { << "gui_face_mode", "FaceModeTaskPanel" >>, << "gui_dim_mode", "DimensionModeTaskPanel" >> }

\* the ways a panel module can be importable: relative to the package, under
\* the package's name, as a top-level module
ImportWays(module_name) ==
  { << "." \o module_name, Some("HeatsinkDesigner") >>,
    << "HeatsinkDesigner." \o module_name, None >>,
    << module_name, None >> }

\* v mm in the unit the model carries the parameter in
InUnit(name, v) ==
  IF name \in {"base_thickness_mm", "fin_height_mm", "pin_height_mm"} THEN v * HU ELSE v

\* params_common of the face panel: the widgets of every parameter but the
\* height, at their defaults
ParamsCommon(type_key) ==
  LET d    == DEFAULT_CNC_PARAMS[type_key]
      keys == (DOMAIN d) \ { HEIGHT_PARAM_MAP[type_key] }
  IN  [k \in keys |-> d[k]]

\* base thickness the face panel works with
FaceBaseThickness(type_key, params_common, height_spin_value) ==
  IF type_key = "solid_plate" THEN height_spin_value
  ELSE LET b == IF "base_thickness_mm" \in DOMAIN params_common
                THEN params_common["base_thickness_mm"] ELSE 5 * HU
       IN  IF b <= 0 THEN 5 * HU ELSE b

DimInputs ==
  { [ panel |-> "dim", dim |-> <<fp[1], fp[2], bt>>, sel_area |-> fp[1] * fp[2],
      params_common |-> <<>>, delta_t |-> dt, p_req |-> p,
      mat_k |-> MATERIALS[m], height_spin |-> hs, fluids |-> fl ] :
    fp \in Footprints, bt \in BaseThicknesses, dt \in DeltaTs, p \in PowerTargets,
    m \in MaterialKeys, hs \in HeightSpinValues, fl \in BOOLEAN }

FaceInputs(type_key) ==
  { [ panel |-> "face",
      dim |-> <<100, 50, FaceBaseThickness(type_key, ParamsCommon(type_key), hs)>>,
      sel_area |-> (100 * 50 * cov) \div 100,
      params_common |-> ParamsCommon(type_key), delta_t |-> dt, p_req |-> p,
      mat_k |-> MATERIALS[m], height_spin |-> hs, fluids |-> fl ] :
    cov \in FaceCoverages, dt \in DeltaTs, p \in PowerTargets,
    m \in MaterialKeys, hs \in HeightSpinValues, fl \in BOOLEAN }

(***************************************************************************)
(* State                                                                   *)
(***************************************************************************)
VARIABLES
  pc,             \* where the running handler is: "idle", "search", "expand",
                  \* "bisect", "type_done", "final", "done", "raised", "built",
                  \* "built_unknown", "estimated", "reestimated", "curve",
                  \* "imported", "feature_built"
  inp,            \* the inputs the handler read
  mode,           \* analysis mode: "h_to_q" | "q_to_h"
  type_sel,       \* current type: "__auto__" or a type key
  ti,             \* position of the loop over type_list
  h_low,          \* locals of the height search
  h_high,
  iter,           \* bisection passes done
  n_eval,         \* q_for_height calls of the running search
  h_local,        \* what the search of the current type returned
  found,          \* the searches that returned so far: [type_key, h]
  best_h,
  best_type_key,
  outcome,        \* what the handler returned / displayed (None while running)
  raised,         \* the exception that left the handler (None if none)
  height_spin,    \* value of the height spin box
  built,          \* a direct build_geometry call: its arguments and result
  est,            \* a direct estimate_heat_dissipation call: arguments, result
  est2,           \* the result of the call repeated with power_input_w = Q_max
  catalogs,       \* the process-wide tables DEFAULT_CNC_PARAMS, MATERIALS and
                  \* SUPPORTED_TYPES as they are now
  curve,          \* a generate_performance_curve call: arguments and result
  imports,        \* an _import_taskpanel call: arguments, attempts, result
  feature         \* the fin/pin boxes heatsink_feature made for `built`

vars == << pc, inp, mode, type_sel, ti, h_low, h_high, iter, n_eval, h_local,
           found, best_h, best_type_key, outcome, raised, height_spin, built,
           est, est2, catalogs, curve, imports, feature >>

searchVars == << h_low, h_high, iter, n_eval, h_local >>

DefaultInput ==
  [ panel |-> "dim", dim |-> <<100, 50, 5 * HU>>, sel_area |-> 5000,
    params_common |-> <<>>, delta_t |-> 40, p_req |-> 0,
    mat_k |-> MATERIALS[DEFAULT_MATERIAL_KEY], height_spin |-> 20 * HU,
    fluids |-> FALSE ]

Init ==
  /\ pc = "idle"
  /\ inp = DefaultInput
  /\ mode = "h_to_q"
  /\ type_sel = "__auto__"
  /\ ti = 0
  /\ h_low = 0
  /\ h_high = 0
  /\ iter = 0
  /\ n_eval = 0
  /\ h_local = None
  /\ found = <<>>
  /\ best_h = None
  /\ best_type_key = None
  /\ outcome = None
  /\ raised = None
  /\ height_spin = 20 * HU
  /\ built = None
  /\ est = None
  /\ est2 = None
  /\ catalogs = Catalogs
  /\ curve = None
  /\ imports = None
  /\ feature = None

CurrentType == TypeList(type_sel)[ti]

\* where a call has returned or raised
ReturnedAt ==
  { "done", "raised", "built", "built_unknown", "estimated", "reestimated",
    "curve", "imported", "feature_built" }

(***************************************************************************)
(* Handlers                                                                *)
(***************************************************************************)
\* DimensionModeTaskPanel._compute_best_config, mode "h_to_q"
DimHToQ ==
  /\ pc = "idle"
  /\ UNCHANGED << built, est, est2, curve, imports, feature >>
  /\ \E in \in DimInputs, ts \in TypeSelections :
       /\ inp' = in
       /\ type_sel' = ts
       /\ height_spin' = in.height_spin
       /\ outcome' = Some(DimHToQOutcome(in, ts))
       /\ catalogs' = [catalogs EXCEPT
                         !.DEFAULT_CNC_PARAMS = SweepWrites(@, TypeList(ts), 1, in)]
  /\ mode' = "h_to_q"
  /\ pc' = "done"
  /\ UNCHANGED << ti, searchVars, found, best_h, best_type_key, raised >>

\* FaceModeTaskPanel._update_result_label, mode "h_to_q"
FaceHToQ ==
  /\ pc = "idle"
  /\ UNCHANGED << built, est, est2, curve, imports, feature >>
  /\ \E ts \in TypeSelections \ {"__auto__"} : \E in \in FaceInputs(ts) :
       /\ inp' = in
       /\ type_sel' = ts
       /\ height_spin' = in.height_spin
       /\ outcome' = Some(FaceHToQOutcome(in, ts))
  /\ UNCHANGED catalogs
  /\ mode' = "h_to_q"
  /\ pc' = "done"
  /\ UNCHANGED << ti, searchVars, found, best_h, best_type_key, raised >>

\* either handler in mode "q_to_h", up to the first call of the search
StartQToH ==
  /\ pc = "idle"
  /\ UNCHANGED << built, est, est2, curve, imports, feature >>
  /\ \E ts \in TypeSelections :
       \E in \in (IF ts = "__auto__" THEN DimInputs ELSE DimInputs \cup FaceInputs(ts)) :
         /\ inp' = in
         /\ type_sel' = ts
         /\ height_spin' = in.height_spin
         /\ IF in.panel = "dim" /\ ~dimension_input_ok(in.dim)
            THEN outcome' = Some(NoOutcome("invalid_dimensions")) /\ pc' = "done" /\ ti' = 0
            ELSE IF in.p_req <= 0
            THEN outcome' = Some(NoOutcome("provide_power")) /\ pc' = "done" /\ ti' = 0
            ELSE outcome' = None /\ pc' = "search" /\ ti' = 1
  /\ mode' = "q_to_h"
  /\ UNCHANGED << searchVars, found, best_h, best_type_key, raised, catalogs >>

\* the search up to its first return: q_min at h_min
SearchInit ==
  /\ pc = "search"
  /\ UNCHANGED << built, est, est2, curve, imports, feature >>
  /\ \E e \in {q_for_height(inp, CurrentType, h_min)} :
         IF ~e.ok
         THEN /\ raised' = Some(e)
              /\ pc' = "raised"
              /\ UNCHANGED << h_low, h_high, h_local >>
         ELSE IF MeetsTarget(e.q, inp.p_req)
         THEN /\ h_local' = Some(h_min)
              /\ pc' = "type_done"
              /\ UNCHANGED << h_low, h_high, raised >>
         ELSE /\ h_low' = h_min
              /\ h_high' = 2 * h_min
              /\ pc' = "expand"
              /\ UNCHANGED << h_local, raised >>
  /\ n_eval' = 1
  /\ iter' = 0
  /\ catalogs' = [catalogs EXCEPT
                    !.DEFAULT_CNC_PARAMS = SearchWrites(@, CurrentType, inp)]
  /\ UNCHANGED << inp, mode, type_sel, ti, found, best_h, best_type_key, outcome,
                  height_spin >>

\* one pass of "while h_high <= H_CAP", or the return that follows the loop
Expand ==
  /\ pc = "expand"
  /\ UNCHANGED << built, est, est2, curve, imports, feature >>
  /\ IF ~WithinCap(h_high)
     THEN /\ h_local' = NotFound(h_low, h_high)
          /\ pc' = "type_done"
          /\ UNCHANGED << h_low, h_high, n_eval, raised >>
     ELSE \E e \in {q_for_height(inp, CurrentType, h_high)} :
              /\ n_eval' = n_eval + 1
              /\ IF ~e.ok
                 THEN /\ raised' = Some(e)
                      /\ pc' = "raised"
                      /\ UNCHANGED << h_low, h_high, h_local >>
                 ELSE IF MeetsTarget(e.q, inp.p_req)
                 THEN /\ pc' = "bisect"
                      /\ UNCHANGED << h_low, h_high, h_local, raised >>
                 ELSE /\ h_low' = h_high
                      /\ h_high' = NextHigh(h_high)
                      /\ pc' = "expand"
                      /\ UNCHANGED << h_local, raised >>
  /\ UNCHANGED << inp, mode, type_sel, ti, iter, found, best_h, best_type_key,
                  outcome, height_spin, catalogs >>

\* one pass of "for _ in range(20)"; the last one returns h_high
Bisect ==
  /\ pc = "bisect"
  /\ UNCHANGED << built, est, est2, curve, imports, feature >>
  /\ \E e \in {q_for_height(inp, CurrentType, Midpoint(h_low, h_high))} :
         IF ~e.ok
         THEN /\ raised' = Some(e)
              /\ pc' = "raised"
              /\ UNCHANGED << h_low, h_high, h_local, iter >>
         ELSE LET b == BisectStep(h_low, h_high, MeetsTarget(e.q, inp.p_req))
              IN  /\ h_low' = b[1]
                  /\ h_high' = b[2]
                  /\ iter' = iter + 1
                  /\ IF iter + 1 = BisectIterations
                     THEN h_local' = BisectResult(b[1], b[2]) /\ pc' = "type_done"
                     ELSE h_local' = h_local /\ pc' = "bisect"
                  /\ UNCHANGED raised
  /\ n_eval' = n_eval + 1
  /\ UNCHANGED << inp, mode, type_sel, ti, found, best_h, best_type_key, outcome,
                  height_spin, catalogs >>

\* the caller's loop body after the search returned, and the loop's advance
TypeDone ==
  /\ pc = "type_done"
  /\ UNCHANGED << built, est, est2, curve, imports, feature >>
  /\ found' = Append(found, [type_key |-> CurrentType, h |-> h_local])
  /\ IF ~IsNone(h_local) /\ BetterHeight(Val(h_local), best_h)
     THEN best_h' = h_local /\ best_type_key' = Some(CurrentType)
     ELSE UNCHANGED << best_h, best_type_key >>
  /\ IF ti < Len(TypeList(type_sel))
     THEN ti' = ti + 1 /\ pc' = "search"
     ELSE ti' = ti /\ pc' = "final"
  /\ UNCHANGED << inp, mode, type_sel, searchVars, outcome, raised, height_spin,
                  catalogs >>

\* the result computed at the rounded height h_round, e being Q_max there
ReportAt(in, best_type, h_round, e) ==
  LET params == IF in.panel = "dim"
                THEN Merge(Merge(default_params_for_type(best_type, FALSE, in.height_spin),
                                 "material_conductivity_w_mk" :> in.mat_k),
                           HEIGHT_PARAM_MAP[best_type] :> h_round)
                ELSE Merge(in.params_common, HEIGHT_PARAM_MAP[best_type] :> h_round)
  IN  IF ~e.ok THEN e
      ELSE [ ok |-> TRUE,
             outcome |-> Outcome(Some(best_type), Some(params), None, "q_to_h",
                                 Some(e.q), Some(h_round)) ]

\* the report of the rounded height for the chosen type
FinalOutcome(in, best_type, best) ==
  ReportAt(in, best_type, RoundHeight(best),
           q_for_height(in, best_type, RoundHeight(best)))

\* after the loop: "not reached", or round the height, set the spin box and
\* report Q_max at the rounded height
Final ==
  /\ pc = "final"
  /\ UNCHANGED << built, est, est2, curve, imports, feature >>
  /\ IF IsNone(best_type_key) \/ IsNone(best_h)
     THEN UNCHANGED catalogs
     ELSE catalogs' = [catalogs EXCEPT
                         !.DEFAULT_CNC_PARAMS = FinalWrites(@, Val(best_type_key),
                                                            RoundHeight(Val(best_h)), inp)]
  /\ IF IsNone(best_type_key) \/ IsNone(best_h)
     THEN /\ outcome' = Some(NoOutcome("not_found"))
          /\ pc' = "done"
          /\ UNCHANGED << raised, height_spin >>
     ELSE \E f \in {FinalOutcome(inp, Val(best_type_key), Val(best_h))} :
              IF ~f.ok
              THEN /\ raised' = Some(f)
                   /\ pc' = "raised"
                   /\ UNCHANGED << outcome, height_spin >>
              ELSE /\ outcome' = Some(f.outcome)
                   /\ height_spin' = Val(f.outcome.h_round)
                   /\ pc' = "done"
                   /\ UNCHANGED raised
  /\ UNCHANGED << inp, mode, type_sel, ti, searchVars, found, best_h, best_type_key >>

\* build_geometry called with the defaults and one registry parameter set
\* by the caller; a base thickness is also the third base dimension
BuildGeometryCall ==
  /\ pc = "idle"
  /\ \E t \in DOMAIN SUPPORTED_TYPES, fp \in BuildFootprints, v \in ParamValues :
       \E i \in 1..Len(SUPPORTED_TYPES[t]) :
         LET name   == SUPPORTED_TYPES[t][i]
             value  == InUnit(name, v)
             dims   == << fp[1], fp[2],
                          IF name = "base_thickness_mm" THEN value ELSE 5 * HU >>
             params == name :> value
         IN  built' = Some([ heatsink_type |-> t, base_dimensions |-> dims,
                             name |-> name, value |-> value,
                             params |-> params,
                             params_after |-> CallerParamsAfter(params),
                             result |-> build_geometry(t, dims, params) ])
  /\ pc' = "built"
  /\ UNCHANGED << inp, mode, type_sel, ti, searchVars, found, best_h, best_type_key,
                  outcome, raised, height_spin, est, est2, catalogs, curve, imports,
                  feature >>

\* build_geometry called with a key the registry does not hold
BuildUnknownTypeCall ==
  /\ pc = "idle"
  /\ \E t \in UnknownTypeKeys, fp \in BuildFootprints, bt \in BaseThicknesses :
       \E i \in 1..Len(UnknownTypeParams) :
         built' = Some([ heatsink_type |-> t, base_dimensions |-> <<fp[1], fp[2], bt>>,
                         params |-> UnknownTypeParams[i],
                         params_after |-> CallerParamsAfter(UnknownTypeParams[i]),
                         result |-> build_geometry(t, <<fp[1], fp[2], bt>>,
                                                   UnknownTypeParams[i]) ])
  /\ pc' = "built_unknown"
  /\ UNCHANGED << inp, mode, type_sel, ti, searchVars, found, best_h, best_type_key,
                  outcome, raised, height_spin, est, est2, catalogs, curve, imports,
                  feature >>

\* estimate_heat_dissipation(geometry, environment, power_input_w,
\* target_overtemp_c, base_thickness_m, material_conductivity_w_mk)
EstimateCall ==
  /\ pc = "idle"
  /\ \E g \in EstGeometries, env \in EstEnvironments, p \in EstPowers,
        dt \in EstDeltaTs, bt \in EstBaseThicknesses, k \in EstConductivities :
       est' = Some([ geometry |-> g, environment |-> env, power_input_w |-> p,
                     target_overtemp_c |-> dt, base_thickness_m |-> bt,
                     material_conductivity_w_mk |-> k,
                     result |-> estimate_heat_dissipation(g, env, p, dt, bt,
                                  k, None, FALSE) ])
  /\ pc' = "estimated"
  /\ UNCHANGED << inp, mode, type_sel, ti, searchVars, found, best_h, best_type_key,
                  outcome, raised, height_spin, built, est2, catalogs, curve, imports,
                  feature >>

\* the design-mode call repeated with power_input_w set to its Q_max and
\* every other argument as before
ReEstimate ==
  /\ pc = "estimated"
  /\ IsNone(Val(est).power_input_w)
  /\ est2' = Some(estimate_heat_dissipation(
                    Val(est).geometry, Val(est).environment,
                    Some(Val(est).result.heat_dissipation_w),
                    Val(est).target_overtemp_c, Val(est).base_thickness_m,
                    Val(est).material_conductivity_w_mk, None, FALSE))
  /\ pc' = "reestimated"
  /\ UNCHANGED << inp, mode, type_sel, ti, searchVars, found, best_h, best_type_key,
                  outcome, raised, height_spin, built, est, catalogs, curve, imports,
                  feature >>

\* generate_performance_curve(geometry, humidity_points, temp_range_c,
\* base_thickness_m = ...) with delta_t_c and the conductivity at their defaults
PerformanceCurveCall ==
  /\ pc = "idle"
  /\ \E g \in EstGeometries, hp \in CurveHumidities, tr \in CurveTempRanges,
        bt \in EstBaseThicknesses :
       curve' = Some([ geometry |-> g, humidity_points |-> hp, temp_range_c |-> tr,
                       delta_t_c |-> 40, base_thickness_m |-> bt,
                       material_conductivity_w_mk |-> MATERIALS[DEFAULT_MATERIAL_KEY],
                       result |-> generate_performance_curve(
                                    g, hp, tr, 40, bt, MATERIALS[DEFAULT_MATERIAL_KEY]) ])
  /\ pc' = "curve"
  /\ UNCHANGED << inp, mode, type_sel, ti, searchVars, found, best_h, best_type_key,
                  outcome, raised, height_spin, built, est, est2, catalogs, imports,
                  feature >>

\* _import_taskpanel called by a command, in an installation where some of
\* the ways to import the panel module work
ImportTaskpanelCall ==
  /\ pc = "idle"
  /\ \E tp \in TaskPanels : \E importable \in SUBSET ImportWays(tp[1]) :
       imports' = Some([ module_name |-> tp[1], class_name |-> tp[2],
                         importable |-> importable,
                         returned |-> import_taskpanel(tp[1], tp[2], importable) ])
  /\ pc' = "imported"
  /\ UNCHANGED << inp, mode, type_sel, ti, searchVars, found, best_h, best_type_key,
                  outcome, raised, height_spin, built, est, est2, catalogs, curve,
                  feature >>

\* the solid of the feature made for the geometry just estimated: same
\* archetype, same bounding length and width, same parameters
CreateFeatureFins ==
  /\ pc = "built"
  /\ Val(built).heatsink_type \in {"straight_fins", "crosscut", "pin_fin"}
  /\ Val(built).result.ok
  /\ feature' = Some([ heatsink_type |-> Val(built).heatsink_type,
                       boxes |-> create_fins_solid(Val(built).heatsink_type,
                                                   Val(built).base_dimensions[1],
                                                   Val(built).base_dimensions[2],
                                                   Val(built).params) ])
  /\ pc' = "feature_built"
  /\ UNCHANGED << inp, mode, type_sel, ti, searchVars, found, best_h, best_type_key,
                  outcome, raised, height_spin, built, est, est2, catalogs, curve,
                  imports >>

\* the call returned: its locals are gone and the next call starts, with the
\* process-wide tables as the calls so far left them
Return ==
  /\ pc \in ReturnedAt
  /\ pc' = "idle"
  /\ inp' = DefaultInput
  /\ mode' = "h_to_q"
  /\ type_sel' = "__auto__"
  /\ ti' = 0
  /\ h_low' = 0
  /\ h_high' = 0
  /\ iter' = 0
  /\ n_eval' = 0
  /\ h_local' = None
  /\ found' = <<>>
  /\ best_h' = None
  /\ best_type_key' = None
  /\ outcome' = None
  /\ raised' = None
  /\ height_spin' = 20 * HU
  /\ built' = None
  /\ est' = None
  /\ est2' = None
  /\ curve' = None
  /\ imports' = None
  /\ feature' = None
  /\ UNCHANGED catalogs

Next ==
  \/ BuildGeometryCall
  \/ BuildUnknownTypeCall
  \/ EstimateCall
  \/ ReEstimate
  \/ PerformanceCurveCall
  \/ ImportTaskpanelCall
  \/ CreateFeatureFins
  \/ DimHToQ
  \/ FaceHToQ
  \/ StartQToH
  \/ SearchInit
  \/ Expand
  \/ Bisect
  \/ TypeDone
  \/ Final
  \/ Return

Spec == Init /\ [][Next]_vars

(***************************************************************************)
(* Properties                                                              *)
(***************************************************************************)
\* Q_max the running search computes for its archetype at height h
QAt(h) == q_for_height(inp, CurrentType, h).q

SearchReturned == pc = "type_done"

\* the heights the search probes before any bisection: 1, 2, 4, ..., 512 mm
DoubledHeights == { (2^j) * HU : j \in 0..9 }

\* C1: whenever the search returns a height (not None), Q_max at that
\* height, before any rounding, is at least the target power; this holds for
\* every archetype, also solid_plate whose Q_max falls with height.
C1_Soundness ==
  (SearchReturned /\ ~IsNone(h_local)) => QAt(Val(h_local)) >= inp.p_req

\* a search that returned a height it found by bisection
C1_Witness ==
  SearchReturned /\ ~IsNone(h_local) /\ iter = BisectIterations

\* C2 (as claimed): for an archetype whose Q_max does not fall with height, a
\* target that some height up to the 1000 mm cap meets makes the search
\* return a height, not None.
C2_Completeness ==
  (SearchReturned /\ CurrentType # "solid_plate" /\ QAt(H_CAP * HU) >= inp.p_req)
    => ~IsNone(h_local)

\* C3: when Q_max is below the target at 1 mm and at every doubled height
\* up to the cap, the search returns None, has made no bisection pass and
\* has raised nothing.
C3_Unreachable ==
  (SearchReturned /\ \A h \in DoubledHeights : QAt(h) < inp.p_req)
    => (IsNone(h_local) /\ iter = 0 /\ IsNone(raised))

\* a search that gave up after probing every doubled height
C3_Witness ==
  SearchReturned /\ IsNone(h_local) /\ n_eval = 10 /\ ~WithinCap(h_high)

\* whole-mm heights used to look for a smaller height that meets the target
WholeHeights == { k * HU : k \in 1..512 }

\* C4: from the moment expansion finds the first doubled height that meets
\* the target, after every bisection pass Q_max(h_low) < target <=
\* Q_max(h_high) and h_high - h_low is the initial bracket width halved once
\* per pass; the search returns h_high; and for an archetype whose Q_max
\* does not fall with height no height at or below (returned height -
\* initial width / 2^20) meets the target.
C4_Bracket ==
  (pc = "bisect" \/ (SearchReturned /\ iter = BisectIterations)) =>
    /\ \E j \in 0..8 :
         LET w0 == (2^j) * HU
         IN  h_low >= w0 /\ h_high <= 2 * w0 /\ (h_high - h_low) * (2^iter) = w0
    /\ QAt(h_low) < inp.p_req
    /\ inp.p_req <= QAt(h_high)
    /\ SearchReturned =>
         /\ h_local = Some(h_high)
         /\ CurrentType # "solid_plate" =>
              \A s \in WholeHeights \cup {h_low} : s <= h_low => QAt(s) < inp.p_req

\* a search that returned after twenty passes with a bracket 2^-20 of its
\* initial width, above the first doubled height
C4_Witness ==
  SearchReturned /\ iter = BisectIterations /\ h_low >= 16 * HU /\ h_high - h_low = 16

Reported == pc = "done" /\ mode = "q_to_h" /\ ~IsNone(Val(outcome).h_round)

\* C5: the height reported is a whole number of mm, at least 1 mm, nearest
\* to the height the search returned; the spin box is set to it; and the
\* Q_max reported is Q_max at that rounded height, with no comparison
\* against the target.
C5_Rounding ==
  Reported =>
    LET r == Val(Val(outcome).h_round)
        t == Val(Val(outcome).type_key)
    IN  /\ r % HU = 0
        /\ r >= HU
        /\ 2 * (r - Val(best_h)) <= HU
        /\ 2 * (Val(best_h) - r) <= HU
        /\ height_spin = r
        /\ Val(outcome).q = Some(q_for_height(inp, t, r).q)

\* a report whose Q_max at the rounded height is below the target
C5_Witness ==
  Reported /\ Val(Val(outcome).q) < inp.p_req /\ Val(Val(outcome).h_round) < Val(best_h)

AutoSearchOver ==
  pc \in {"final", "done"} /\ mode = "q_to_h" /\ type_sel = "__auto__" /\ inp.p_req > 0

\* C6: in auto mode the loop has searched every supported archetype once, in
\* registry order; best_type_key is None when every search returned None;
\* otherwise it is the archetype with the smallest returned height among
\* those that returned one, and among archetypes with that same height the
\* first in registry order.
C6_AutoSmallestHeight ==
  AutoSearchOver =>
    /\ Len(found) = Len(TypeKeys)
    /\ \A i \in 1..Len(TypeKeys) : found[i].type_key = TypeKeys[i]
    /\ IF \A i \in 1..Len(found) : IsNone(found[i].h)
       THEN IsNone(best_type_key) /\ IsNone(best_h)
       ELSE \E b \in 1..Len(found) :
              /\ best_type_key = Some(TypeKeys[b])
              /\ ~IsNone(found[b].h)
              /\ best_h = found[b].h
              /\ \A i \in 1..Len(found) :
                   ~IsNone(found[i].h) =>
                     \/ Val(found[b].h) < Val(found[i].h)
                     \/ (Val(found[b].h) = Val(found[i].h) /\ b <= i)

\* an auto search where one archetype returned None and two others returned
\* the same smallest height
C6_Witness ==
  /\ AutoSearchOver
  /\ \E i \in 1..Len(found) : IsNone(found[i].h)
  /\ \E i, j \in 1..Len(found) :
       i < j /\ found[i].h = best_h /\ found[j].h = best_h /\ ~IsNone(best_h)
         /\ best_type_key = Some(TypeKeys[i])

AutoSweepDone ==
  pc = "done" /\ mode = "h_to_q" /\ inp.panel = "dim" /\ type_sel = "__auto__"
    /\ ~IsNone(Val(outcome).type_key)

RaisingTypes ==
  { t \in { TypeList(type_sel)[i] : i \in 1..Len(TypeList(type_sel)) } :
      IF mode = "h_to_q" /\ inp.panel = "dim"
      THEN ~HToQCandidate(inp, t).ok
      ELSE ~q_for_height(inp, t, IF mode = "h_to_q" THEN inp.height_spin ELSE h_min).ok }

\* C8 (as claimed): a handler that evaluates an archetype whose geometry
\* build raises does not complete with a result: the error leaves the
\* handler and no archetype is returned.
C8_ErrorPropagates ==
  (pc = "done" /\ (mode = "h_to_q" \/ inp.p_req > 0))
    => (RaisingTypes = {} \/ IsNone(Val(outcome).type_key))

\* C10 (as claimed): build_geometry called with a registry parameter of the
\* archetype at a value <= 0 fails with an InvalidParameter error that names
\* that parameter, and returns no GeometryDetails.
C10_ParameterValidation ==
  (pc = "built" /\ Val(built).value <= 0) =>
    LET r == Val(built).result
    IN  ~r.ok /\ r.kind = "InvalidParameter" /\ r.name = Val(built).name

GeometryInvariant(g) ==
  g.effective_area_m2 >= g.base_area_m2 /\ g.base_area_m2 >= 0

\* C11: every GeometrySummary that build_geometry returns for a plate of
\* positive length and width, and every one the face panel holds after
\* prepare_geometry rescaled the areas, has effective_area_m2 >=
\* base_area_m2 >= 0.
C11_GeometrySummaryInvariant ==
  /\ (pc = "built" /\ Val(built).result.ok)
       => GeometryInvariant(Val(built).result.geometry)
  /\ (pc = "done" /\ ~IsNone(Val(outcome).details))
       => GeometryInvariant(Val(Val(outcome).details).geometry)

\* a face-panel result whose areas were scaled down to half the bounding box
\* and whose fins add to the base
C11_Witness ==
  /\ pc = "done" /\ inp.panel = "face" /\ ~IsNone(Val(outcome).details)
  /\ 2 * inp.sel_area = inp.dim[1] * inp.dim[2]
  /\ Val(Val(outcome).details).geometry.base_area_m2 = inp.sel_area
  /\ Val(Val(outcome).details).geometry.effective_area_m2 > inp.sel_area

BuiltIs(t) == pc = "built" /\ Val(built).heatsink_type = t

\* the value build_geometry works with for parameter n: the caller's, or the
\* default
BuiltParam(n) ==
  IF Val(built).name = n THEN Val(built).value
  ELSE DEFAULT_CNC_PARAMS[Val(built).heatsink_type][n]

BuiltLength == Val(built).base_dimensions[1]

BuiltWidth == Val(built).base_dimensions[2]

BuiltPositive(names) == \A n \in names : BuiltParam(n) > 0

\* the c >= 1 with c = max(1, floor(num / den)), den > 0, stated by bounds
FlooredCount(num, den) ==
  CHOOSE c \in 1..Max(num, 1) :
    IF num < den THEN c = 1 ELSE c * den <= num /\ num < (c + 1) * den

\* C12: for positive fin height, thickness and gap and a width above the
\* gap, build_geometry("straight_fins") returns fin_count =
\* floor((width - gap) / (thickness + gap)) + 1, which is at least 1, and
\* the raw fin area fin_count * 2 * height * length.
C12_StraightFinCount ==
  (/\ BuiltIs("straight_fins")
   /\ BuiltPositive({"fin_height_mm", "fin_thickness_mm", "fin_gap_mm"})
   /\ BuiltWidth > BuiltParam("fin_gap_mm")) =>
    LET r      == Val(built).result
        pitch  == BuiltParam("fin_thickness_mm") + BuiltParam("fin_gap_mm")
        usable == BuiltWidth - BuiltParam("fin_gap_mm")
    IN  /\ r.ok
        /\ Val(r.fin_count) >= 1
        /\ (Val(r.fin_count) - 1) * pitch <= usable
        /\ usable < Val(r.fin_count) * pitch
        /\ BuiltParam("fin_height_mm") % HU = 0
        /\ Val(r.fin_area_m2)
             = Val(r.fin_count) * 2 * (BuiltParam("fin_height_mm") \div HU) * BuiltLength

\* the plate of the tests: 60 mm wide, 2 mm fins, 3 mm gaps, 12 fins
C12_Witness ==
  /\ BuiltIs("straight_fins") /\ BuiltWidth = 60
  /\ BuiltParam("fin_thickness_mm") = 2 /\ BuiltParam("fin_gap_mm") = 3
  /\ Val(built).result.ok /\ Val(built).result.fin_count = Some(12)

\* C13: for positive fin height, thickness and gap and a usable width
\* (width - gap) <= 0, build_geometry("straight_fins") fails with
\* InvalidGeometry and returns no GeometryDetails.
C13_StraightFinsInfeasible ==
  (/\ BuiltIs("straight_fins")
   /\ BuiltPositive({"fin_height_mm", "fin_thickness_mm", "fin_gap_mm"})
   /\ BuiltWidth - BuiltParam("fin_gap_mm") <= 0) =>
    (~Val(built).result.ok /\ Val(built).result.kind = "InvalidGeometry")

\* a gap exactly as wide as the plate: usable width zero
C13_Witness ==
  /\ BuiltIs("straight_fins")
  /\ BuiltPositive({"fin_height_mm", "fin_thickness_mm", "fin_gap_mm"})
  /\ BuiltWidth = BuiltParam("fin_gap_mm")
  /\ ~Val(built).result.ok

\* C14: for positive pin height, pin size and pitch,
\* build_geometry("pin_fin") reports count_x * count_y pins with count_x =
\* max(1, floor((length + pitch - pin_size) / pitch)) and count_y likewise
\* for the width.
C14_PinFinCount ==
  (/\ BuiltIs("pin_fin")
   /\ BuiltPositive({"pin_height_mm", "pin_size_mm", "pitch_mm"})) =>
    LET r == Val(built).result
        p == BuiltParam("pitch_mm")
        s == BuiltParam("pin_size_mm")
    IN  /\ r.ok
        /\ r.fin_count = Some(FlooredCount(BuiltLength + p - s, p)
                              * FlooredCount(BuiltWidth + p - s, p))

\* the plate of the tests: 80 x 80 mm, 5 mm pins at 8 mm pitch, 100 pins
C14_Witness ==
  /\ BuiltIs("pin_fin") /\ BuiltLength = 80 /\ BuiltWidth = 80
  /\ BuiltParam("pin_size_mm") = 5 /\ BuiltParam("pitch_mm") = 8
  /\ Val(built).result.ok /\ Val(built).result.fin_count = Some(100)

\* C15: for positive pin height, pin size and groove width, with pitch =
\* pin_size + groove, build_geometry("crosscut") reports count_x * count_y
\* pins with count_x = max(1, floor((length + groove) / pitch)) and count_y
\* likewise for the width, and the raw pin area pin_count * 4 * pin_size *
\* pin_height.
C15_CrosscutCount ==
  (/\ BuiltIs("crosscut")
   /\ BuiltPositive({"pin_height_mm", "pin_size_mm", "groove_width_mm"})) =>
    LET r == Val(built).result
        g == BuiltParam("groove_width_mm")
        s == BuiltParam("pin_size_mm")
    IN  /\ r.ok
        /\ r.fin_count = Some(FlooredCount(BuiltLength + g, s + g)
                              * FlooredCount(BuiltWidth + g, s + g))
        /\ BuiltParam("pin_height_mm") % HU = 0
        /\ Val(r.fin_area_m2)
             = Val(r.fin_count) * 4 * s * (BuiltParam("pin_height_mm") \div HU)

\* a plate too narrow for one pitch: a single row of pins is still counted
C15_Witness ==
  /\ BuiltIs("crosscut")
  /\ BuiltPositive({"pin_height_mm", "pin_size_mm", "groove_width_mm"})
  /\ BuiltWidth + BuiltParam("groove_width_mm")
       < BuiltParam("pin_size_mm") + BuiltParam("groove_width_mm")
  /\ Val(built).result.ok /\ Val(Val(built).result.fin_count) >= 1

\* C16: for positive length, width and base thickness,
\* build_geometry("solid_plate") returns base_area_m2 = effective_area_m2 =
\* length * width, no fin count and no fin area.
C16_SolidPlate ==
  (BuiltIs("solid_plate") /\ Val(built).value > 0) =>
    LET r == Val(built).result
    IN  /\ r.ok
        /\ r.geometry.base_area_m2 = BuiltLength * BuiltWidth
        /\ r.geometry.effective_area_m2 = BuiltLength * BuiltWidth
        /\ IsNone(r.fin_count)
        /\ IsNone(r.fin_area_m2)

\* a solid plate built with a positive base thickness
C16_Witness ==
  BuiltIs("solid_plate") /\ Val(built).value > 0 /\ Val(built).result.ok
    /\ Val(built).result.geometry.base_area_m2 = 5000

\* C17: build_geometry with a key outside the registry fails with
\* UnknownType, whatever the (valid) dimensions and the params mapping, and
\* returns no GeometryDetails.
C17_UnknownType ==
  (pc = "built_unknown") =>
    (~Val(built).result.ok /\ Val(built).result.kind = "UnknownType")

\* an unknown key passed together with a full params mapping
C17_Witness ==
  pc = "built_unknown" /\ Val(built).heatsink_type = "spiky"
    /\ Val(built).params = DEFAULT_CNC_PARAMS["pin_fin"] /\ ~Val(built).result.ok

\* C18: the design-mode call followed by the same call with power_input_w =
\* the Q_max it returned gives the same surface_temperature_c.
C18_RoundTrip ==
  (pc = "reestimated") =>
    Val(est2).surface_temperature_c = Val(est).result.surface_temperature_c

\* a round trip through a base with conduction resistance, Q_max > 0
C18_Witness ==
  /\ pc = "reestimated"
  /\ ~IsNone(Val(est).base_thickness_m)
  /\ Val(est).result.heat_dissipation_w > 0
  /\ Val(est2).heat_dissipation_w = Val(est).result.heat_dissipation_w
  /\ Val(est2).surface_temperature_c > Val(est).environment.temperature_c

Verified == pc = "estimated" /\ ~IsNone(Val(est).power_input_w)

\* the call of est repeated with another target_overtemp_c / base thickness
EstimateAgain(dt, bt) ==
  estimate_heat_dissipation(Val(est).geometry, Val(est).environment,
                            Val(est).power_input_w, dt, bt,
                            Val(est).material_conductivity_w_mk, None, FALSE)

\* C19 (as claimed): with power_input_w given, the call repeated with any
\* other target_overtemp_c returns the same ThermalResult.
C19_IgnoresTarget ==
  Verified =>
    \A dt \in EstDeltaTs : EstimateAgain(dt, Val(est).base_thickness_m) = Val(est).result

\* the surface rise Q * R_conv of the verified call, in mK
VerifiedRise ==
  SurfaceRise(Max(Val(Val(est).power_input_w), 0),
              ConvectionResistance(Val(est).result.convection_coefficient,
                                   Max(Val(est).geometry.effective_area_m2, AreaFloor)))

VerifiedCore ==
  /\ Val(est).result.heat_dissipation_w = Max(Val(Val(est).power_input_w), 0)
  /\ Val(est).result.surface_temperature_c
       = Val(est).environment.temperature_c + VerifiedRise
  /\ EstimateAgain(Val(est).target_overtemp_c, None).surface_temperature_c
       = Val(est).result.surface_temperature_c

Designed == pc = "estimated" /\ IsNone(Val(est).power_input_w)

\* R_conv = 1 / (h * A_eff) of the call recorded in est, in uK/W
EstRConv ==
  ConvectionResistance(Val(est).result.convection_coefficient,
                       Max(Val(est).geometry.effective_area_m2, AreaFloor))

\* R_cond of the call recorded in est as C21 states it, in uK/W
EstRCond ==
  IF /\ ~IsNone(Val(est).base_thickness_m)
     /\ Val(Val(est).base_thickness_m) > 0
     /\ Val(est).material_conductivity_w_mk > 0
  THEN ConductionResistance(Val(Val(est).base_thickness_m),
                            Val(est).material_conductivity_w_mk,
                            Max(Val(est).geometry.base_area_m2, AreaFloor))
  ELSE 0

\* C21: with power_input_w None, heat_dissipation_w = target_overtemp_c /
\* (R_cond + R_conv) and surface_temperature_c = ambient + heat_dissipation_w
\* * R_conv, where R_conv = 1 / (h * A_eff), R_cond = base_thickness /
\* (k * A_base) for a given positive thickness and k > 0, and R_cond = 0
\* in every other case.
C21_DesignResult ==
  Designed =>
    /\ Val(est).result.heat_dissipation_w
         = MulDiv(10^9, Val(est).target_overtemp_c * 1000, EstRConv + EstRCond)
    /\ Val(est).result.surface_temperature_c
         = Val(est).environment.temperature_c
             + SurfaceRise(Val(est).result.heat_dissipation_w, EstRConv)

\* a design-mode call through a 5 mm aluminium base: R_cond > 0, Q_max > 0
\* and a surface below ambient + target
C21_Witness ==
  /\ Designed
  /\ Val(est).base_thickness_m = Some(5 * HU)
  /\ Val(est).material_conductivity_w_mk = MATERIALS["al_6061"]
  /\ EstRCond > 0
  /\ Val(est).result.heat_dissipation_w > 0
  /\ Val(est).result.surface_temperature_c > Val(est).environment.temperature_c
  /\ Val(est).result.surface_temperature_c
       < Val(est).environment.temperature_c + Val(est).target_overtemp_c * 1000

CurveCalled == pc = "curve"

\* the keys "RH <rounded humidity>%" of the humidity points of the call
CurveKeysExpected ==
  { CurveKey(Val(curve).humidity_points[i]) :
      i \in 1 .. Len(Val(curve).humidity_points) }

\* data holds one (temp, Q_max) pair for each of start, start + step, ...
\* below stop, in that order, Q_max being the design-mode result at that
\* ambient temperature
CurveEntryShape(data) ==
  LET start == Val(curve).temp_range_c[1]
      stop  == Val(curve).temp_range_c[2]
      step  == Val(curve).temp_range_c[3]
  IN  /\ start + Len(data) * step >= stop
      /\ \A i \in 1 .. Len(data) :
           /\ data[i][1] = start + (i - 1) * step
           /\ data[i][1] < stop
           /\ \E rh \in { Val(curve).humidity_points[j] :
                             j \in 1 .. Len(Val(curve).humidity_points) } :
                data[i][2] = estimate_heat_dissipation(
                               Val(curve).geometry,
                               [temperature_c |-> data[i][1] * 1000, relative_humidity |-> rh],
                               None, Val(curve).delta_t_c, Val(curve).base_thickness_m,
                               Val(curve).material_conductivity_w_mk, None,
                               FALSE).heat_dissipation_w

\* the keys and the shape of every entry, and the defaults' 17 points under
\* RH 30%, RH 60%, RH 90%
CurveShape ==
  /\ DOMAIN Val(curve).result = CurveKeysExpected
  /\ \A key \in DOMAIN Val(curve).result : CurveEntryShape(Val(curve).result[key])
  /\ (Val(curve).humidity_points = <<300, 600, 900>>
        /\ Val(curve).temp_range_c = <<0, 81, 5>>)
       => /\ DOMAIN Val(curve).result = {"RH 30%", "RH 60%", "RH 90%"}
          /\ \A key \in DOMAIN Val(curve).result : Len(Val(curve).result[key]) = 17

\* C23 (as claimed): generate_performance_curve returns one entry per
\* humidity point, keyed "RH <rounded humidity>%", and each entry holds
\* exactly one (ambient_temp, Q_max) pair for every temperature start,
\* start + step, ... strictly below stop, in ascending order (17 points and
\* the keys RH 30%, RH 60%, RH 90% for the defaults).
C23_CurveShape ==
  CurveCalled =>
    /\ Cardinality(DOMAIN Val(curve).result) = Len(Val(curve).humidity_points)
    /\ CurveShape

\* C23 (amended): generate_performance_curve returns one entry per distinct
\* key "RH <rounded humidity>%" of its humidity points (points that round to
\* the same whole percent share one entry), and each entry holds exactly one
\* (ambient_temp, Q_max) pair for every temperature start, start + step, ...
\* strictly below stop, in ascending order (17 points and the keys RH 30%,
\* RH 60%, RH 90% for the defaults).
C23_CurveShapeAmended ==
  CurveCalled =>
    /\ Cardinality(DOMAIN Val(curve).result) = Cardinality(CurveKeysExpected)
    /\ Cardinality(DOMAIN Val(curve).result) <= Len(Val(curve).humidity_points)
    /\ CurveShape

\* three humidity points, two of which round to 30 %: two entries of 16
\* points each, the last at 75 C with a positive Q_max
C23_Witness ==
  /\ CurveCalled
  /\ Val(curve).humidity_points = <<296, 304, 900>>
  /\ Val(curve).temp_range_c = <<0, 80, 5>>
  /\ DOMAIN Val(curve).result = {"RH 30%", "RH 90%"}
  /\ Len(Val(curve).result["RH 30%"]) = 16
  /\ Val(curve).result["RH 30%"][16][1] = 75
  /\ Val(curve).result["RH 30%"][16][2] > 0

\* C24: convection_coefficient_natural returns at least 3.0 W/(m^2 K) for
\* every geometry with a positive characteristic length and every delta-T
\* >= 0, 0 included, and so does the convection_coefficient of every
\* ThermalResult.
C24_ConvectionFloor ==
  /\ pc \in {"estimated", "reestimated"}
       => /\ Val(est).result.convection_coefficient >= 3000
          /\ \A fl \in BOOLEAN :
               convection_coefficient_natural(Val(est).geometry,
                                              Val(est).target_overtemp_c, fl) >= 3000
  /\ pc = "reestimated" => Val(est2).convection_coefficient >= 3000

\* a call with delta-T = 0: the correlation alone gives Nu = 0.68, far below
\* the floor, and the result carries exactly 3.0
C24_Witness ==
  /\ pc = "estimated"
  /\ Val(est).target_overtemp_c = 0
  /\ Val(est).geometry.characteristic_length_m > 0
  /\ (680 * 26) \div Val(est).geometry.characteristic_length_m < 3000
  /\ Val(est).result.convection_coefficient = 3000

\* the package-relative import of the module of the call in imports
RelativeImport == << "." \o Val(imports).module_name, Some("HeatsinkDesigner") >>

\* C25 (as claimed): the first import attempt of _import_taskpanel is the
\* package-relative one (name ".<module>", package "HeatsinkDesigner"),
\* before any absolute name, and the class it finds is returned when it
\* succeeds.
C25_RelativeImportFirst ==
  pc = "imported" =>
    /\ Val(imports).returned.calls[1] = RelativeImport
    /\ RelativeImport \in Val(imports).importable
         => Val(imports).returned.result
              = Some([ class_name |-> Val(imports).class_name,
                       found_as   |-> RelativeImport ])

\* C26: a height search probes, beyond h_min, only the doubled heights 2, 4,
\* ..., 512 mm in its expansion loop (at most 9 probes, none above 1000 mm),
\* bisects exactly 20 times and only once, and so evaluates Q_max at most
\* 1 + 9 + 20 = 30 times.
C26_SearchBounded ==
  /\ iter \in 0 .. BisectIterations
  /\ n_eval - iter <= 1 + 9
  /\ n_eval <= 30
  /\ pc = "expand"
       => \E j \in 1 .. 10 :
            /\ h_high = (2^j) * HU
            /\ h_low = (2^(j - 1)) * HU
            /\ n_eval = j
            /\ iter = 0
  /\ pc = "bisect"
       => /\ iter < BisectIterations
          /\ h_high <= 512 * HU
          /\ \E j \in 1 .. 9 : n_eval = 1 + j + iter
  /\ pc = "type_done"
       => \/ iter = 0 /\ h_local \in {None, Some(h_min)}
          \/ iter = BisectIterations /\ ~IsNone(h_local) /\ n_eval >= 1 + 1 + 20

\* a search that needed all 9 doublings and the 20 bisections: 30 evaluations
C26_Witness ==
  /\ pc = "type_done"
  /\ iter = BisectIterations
  /\ n_eval = 30
  /\ ~IsNone(h_local)
  /\ Val(h_local) > 256 * HU
  /\ Val(h_local) <= 512 * HU

\* the design-mode call of est repeated in another environment
DesignedIn(environment) ==
  estimate_heat_dissipation(Val(est).geometry, environment, None,
                            Val(est).target_overtemp_c, Val(est).base_thickness_m,
                            Val(est).material_conductivity_w_mk, None, FALSE)

\* every Q_max of every entry of the curve
CurvePowers ==
  UNION { { Val(curve).result[key][i][2] : i \in 1 .. Len(Val(curve).result[key]) } :
          key \in DOMAIN Val(curve).result }

\* C27: in design mode heat_dissipation_w and convection_coefficient are the
\* same for any two Environment values when all other arguments are equal,
\* so every point of every curve of generate_performance_curve carries the
\* same Q_max; only surface_temperature_c follows the ambient temperature.
C27_AmbientIndependence ==
  /\ Designed =>
       \A environment \in EstEnvironments :
         /\ DesignedIn(environment).heat_dissipation_w
              = Val(est).result.heat_dissipation_w
         /\ DesignedIn(environment).convection_coefficient
              = Val(est).result.convection_coefficient
         /\ DesignedIn(environment).surface_temperature_c - environment.temperature_c
              = Val(est).result.surface_temperature_c
                  - Val(est).environment.temperature_c
  /\ CurveCalled => Cardinality(CurvePowers) <= 1

\* the default curves: three humidities, 17 ambient temperatures from 0 to
\* 80 C, and one positive Q_max on all 51 points
C27_Witness ==
  /\ CurveCalled
  /\ DOMAIN Val(curve).result = {"RH 30%", "RH 60%", "RH 90%"}
  /\ Len(Val(curve).result["RH 30%"]) = 17
  /\ Val(curve).result["RH 30%"][1][1] = 0
  /\ Val(curve).result["RH 90%"][17][1] = 80
  /\ Cardinality(CurvePowers) = 1
  /\ \A q \in CurvePowers : q > 0

SolidPlateSearched == pc = "type_done" /\ CurrentType = "solid_plate"

\* C28: for solid_plate the searched height is the base thickness, so Q_max
\* falls strictly as the height grows (positive conductivity); the search
\* returns exactly 1 mm when Q_max(1 mm) >= target and None otherwise, never
\* another height.
C28_SolidPlateSearch ==
  SolidPlateSearched =>
    /\ inp.mat_k > 0
    /\ \A j \in 0 .. 9 : QAt((2^j) * HU) > QAt((2^(j + 1)) * HU)
    /\ QAt(h_min) >= inp.p_req => h_local = Some(h_min)
    /\ QAt(h_min) < inp.p_req => h_local = None
    /\ h_local \in {None, Some(h_min)}

\* a solid_plate search whose target lies above Q_max(1 mm): every doubled
\* height up to 512 mm was probed and the search returned None
C28_Witness ==
  /\ SolidPlateSearched
  /\ QAt(h_min) > 0
  /\ QAt(h_min) < inp.p_req
  /\ n_eval = 10
  /\ iter = 0
  /\ h_local = None

\* C29: for every input build_geometry accepts for straight_fins, the
\* fin_count fins of the given thickness with the given gap between them fit
\* across the plate: fin_count * thickness + (fin_count - 1) * gap <= width.
C29_FinsFit ==
  (BuiltIs("straight_fins") /\ Val(built).result.ok) =>
    Val(Val(built).result.fin_count) * BuiltParam("fin_thickness_mm")
      + (Val(Val(built).result.fin_count) - 1) * BuiltParam("fin_gap_mm")
      <= BuiltWidth

\* C30: for straight_fins, crosscut and pin_fin and the same bounding length,
\* width and pattern parameters, the fin/pin count build_geometry uses for
\* the thermal estimate equals the number of fin/pin boxes the solid builder
\* of the feature creates.
C30_CountMatchesSolid ==
  pc = "feature_built" =>
    Val(feature).boxes = Val(Val(built).result.fin_count)

====
